---- MODULE Spec2Model ----
(***************************************************************************)
(* The complexity rule (lib/rules/complexity.js, the revision with         *)
(* recursion detection) as a state machine driven by the host traversal.   *)
(* The rule's state is the two stacks that create() allocates, the         *)
(* threshold it computes from the option, and the violations handed to     *)
(* context.report.  The host's state is the stack of open code paths.      *)
(*                                                                         *)
(* The max-statements rule is modelled the same way: its state is the      *)
(* stack of statement counts, the list of deferred top-level functions,    *)
(* the maximum and the ignoreTopLevelFunctions flag that create() computes *)
(* from the options.  Each specification below drives one rule; SpecTwice  *)
(* analyses one tree twice with a fresh rule instance each time.           *)
(***************************************************************************)
EXTENDS Integers, Sequences, FiniteSets

\* ------------------------------------------------------------------ bounds
MaxThreshold == 1      \* configured thresholds are drawn from 0..MaxThreshold
MaxSteps == 4          \* callbacks of one traversal that open a code path or visit a node
MaxCases == 2          \* arms of a switch statement
MaxChain == 1          \* logical nodes of one expression in Spec
MaxLogical == 4        \* logical nodes of the expression SpecLogical walks
MaxBody == 2           \* statements of one block statement
MaxReplay == 3         \* callbacks of an analysis run twice that open a unit or visit a node

\* ------------------------------------------------------- program constants
THRESHOLD_DEFAULT == 20

\* JavaScript's undefined, where a number is expected
Undefined == -1

\* JavaScript's NaN, where a number is expected
NaN == -2

\* ------------------------------------------------------------ syntax values
Names == {"f", "g"}

Null == [type |-> "null", name |-> ""]
Ident(n) == [type |-> "Identifier", name |-> n]
\* a node with no name property, such as a destructuring pattern or a literal
Other(t) == [type |-> t, name |-> ""]

Idents == {Ident(n) : n \in Names}

Last(s) == s[Len(s)]
Front(s) == SubSeq(s, 1, Len(s) - 1)

\* ---------------------------------------------------------------- options
\* context.options[0]: absent, a number, or a record whose keys maximum and
\* max are each absent (Undefined) or a number
NoOption == [type |-> "undefined", value |-> Undefined, maximum |-> Undefined, max |-> Undefined]
NumberOption(n) == [type |-> "number", value |-> n, maximum |-> Undefined, max |-> Undefined]
ObjectOption(a, b) == [type |-> "object", value |-> Undefined, maximum |-> a, max |-> b]

Options ==
    {NoOption}
    \cup {NumberOption(n) : n \in 0..MaxThreshold}
    \cup {ObjectOption(a, b) : a, b \in {Undefined} \cup 0..MaxThreshold}

\* a || b on numbers-or-undefined: b when a is falsy (0 or undefined)
JsOr(a, b) == IF a = Undefined \/ a = 0 THEN b ELSE a

\* a > b on numbers-or-undefined: false when either side is undefined (NaN)
JsGreater(a, b) == a # Undefined /\ b # Undefined /\ a > b

createThreshold(option) ==
    IF option.type = "object"
    THEN IF option.maximum # Undefined \/ option.max # Undefined
         THEN JsOr(option.maximum, option.max)
         ELSE THRESHOLD_DEFAULT
    ELSE IF option.type = "number" THEN option.value
    ELSE THRESHOLD_DEFAULT

\* max-statements: `let maxStatements = 10` unless options[0] sets it
DefaultMaxStatements == 10

createMaxStatements(option) ==
    IF option.type = "object"
       /\ (option.maximum # Undefined \/ option.max # Undefined)
    THEN JsOr(option.maximum, option.max)
    ELSE IF option.type = "number" THEN option.value
    ELSE DefaultMaxStatements

\* options[1] of max-statements: absent, or a record that may hold the flag
NoSecondOption == [type |-> "undefined", ignoreTopLevelFunctions |-> "undefined"]
SecondOption(flag) == [type |-> "object", ignoreTopLevelFunctions |-> flag]
SecondOptions == {NoSecondOption} \cup {SecondOption(f) : f \in {"undefined", "false", "true"}}

\* (options[1] && options[1].ignoreTopLevelFunctions) || false
createIgnoreTopLevelFunctions(second) ==
    second.type = "object" /\ second.ignoreTopLevelFunctions = "true"

\* the value of `configured` where the option is not recorded
Unrecorded == [type |-> "unrecorded"]

\* the value of `replay` where one analysis is modelled
NotReplaying == [rule |-> "none"]

\* ------------------------------------------------------------------- state
VARIABLES
    threshold,      \* create(): the effective threshold
    complexities,   \* create(): stack of complexity per code path
    functionStack,  \* create(): stack of current function identifiers
    reports,        \* what context.report was called with, in order
    open,           \* host: the open code paths, outermost first
    phase,          \* host: "idle" before the traversal, "walk", "done"
    units,          \* host: code paths opened so far inside the program
    events,         \* host: visitor events delivered so far
    attributed,     \* history: decision points seen per open code path
    last,           \* history: the last callback, its argument, the stack before
    tracing,        \* history: whether `last` records visitor callbacks too
    expr,           \* SpecLogical: the expression being traversed
    todo,           \* SpecLogical: logical nodes still to visit, with their parents
    configured,     \* history: the option create() was configured with
    replay,         \* SpecTwice: the events of the first analysis and its results
    maxStatements,            \* max-statements create(): the effective maximum
    ignoreTopLevelFunctions,  \* max-statements create(): the flag of options[1]
    statementCounts,          \* max-statements create(): its functionStack
    topLevelFunctions,        \* max-statements create(): the deferred units
    minusOne                  \* max-statements: functionStack[-1], no element of the stack

\* the state of the complexity rule and of the max-statements rule
complexityVars == <<threshold, complexities, functionStack>>
statementVars ==
    <<maxStatements, ignoreTopLevelFunctions, statementCounts, topLevelFunctions,
      minusOne>>

vars == <<threshold, complexities, functionStack, reports, open, phase, units,
          events, attributed, last, tracing, expr, todo, configured, replay,
          maxStatements, ignoreTopLevelFunctions, statementCounts, topLevelFunctions,
          minusOne>>

\* max-statements created without options, its traversal not started
StatementsIdle ==
    /\ maxStatements = createMaxStatements(NoOption)
    /\ ignoreTopLevelFunctions = createIgnoreTopLevelFunctions(NoSecondOption)
    /\ statementCounts = <<>>
    /\ topLevelFunctions = <<>>
    /\ minusOne = Undefined

\* ------------------------------------------------------------- code paths
Origins == {"function", "class-field-initializer", "class-static-block"}

ProgramNode ==
    [uid |-> 0, id |-> Null, parent |-> [type |-> "none", target |-> Null, property |-> Null]]

\* the parent of a function node: its type, its id / left / key as `target`,
\* and the property of a member-expression target
Parent(t, target, property) == [type |-> t, target |-> target, property |-> property]

\* the function nodes Spec opens code paths for: a declaration of each name
\* and an anonymous callback
FunctionNodes(uid) ==
    {[uid |-> uid, id |-> i, parent |-> Parent("Program", Null, Null)] : i \in Idents}
    \cup {[uid |-> uid, id |-> Null, parent |-> Parent("CallExpression", Null, Null)]}

\* every syntactic position getFunctionIdentifier distinguishes
FunctionParents ==
    {Parent("VariableDeclarator", t, Null) : t \in Idents \cup {Other("ObjectPattern")}}
    \cup {Parent("AssignmentExpression", t, Null) : t \in Idents \cup {Other("ArrayPattern")}}
    \cup {Parent("AssignmentExpression", Other("MemberExpression"), q) :
            q \in Idents \cup {Other("Literal")}}
    \cup {Parent("Property", t, Null) : t \in Idents \cup {Other("Literal")}}
    \cup {Parent("CallExpression", Null, Null)}

AllFunctionNodes(uid) ==
    {[uid |-> uid, id |-> i, parent |-> q] : i \in Idents \cup {Null}, q \in FunctionParents}

\* a class field initializer's node is the value expression, a static
\* block's node is the StaticBlock
ImplicitNode(uid) ==
    [uid |-> uid, id |-> Null, parent |-> [type |-> "ClassBody", target |-> Null, property |-> Null]]

CodePathNodes(origin, uid) ==
    IF origin = "function" THEN FunctionNodes(uid) ELSE {ImplicitNode(uid)}

\* ----------------------------------------------------------------- helpers
increaseComplexityAll(cs) == [i \in 1..Len(cs) |-> cs[i] + 1]

increaseComplexity(cs) == [cs EXCEPT ![Len(cs)] = @ + 1]

\* the variable a function initialises taken before the function's own name
getFunctionIdentifierVariableFirst(node) ==
    IF node.parent.type = "VariableDeclarator" THEN node.parent.target
    ELSE IF node.id # Null THEN node.id
    ELSE IF node.parent.type = "AssignmentExpression"
            /\ node.parent.target.type = "Identifier" THEN node.parent.target
    ELSE IF node.parent.type = "AssignmentExpression"
            /\ node.parent.target.type = "MemberExpression"
            /\ node.parent.property.type = "Identifier" THEN node.parent.property
    ELSE IF node.parent.type = "Property"
            /\ node.parent.target.type = "Identifier" THEN node.parent.target
    ELSE Null

getFunctionIdentifier(node) ==
    IF node.id # Null THEN node.id
    ELSE IF node.parent.type = "VariableDeclarator" THEN node.parent.target
    ELSE IF node.parent.type = "AssignmentExpression"
            /\ node.parent.target.type = "Identifier" THEN node.parent.target
    ELSE IF node.parent.type = "AssignmentExpression"
            /\ node.parent.target.type = "MemberExpression"
            /\ node.parent.property.type = "Identifier" THEN node.parent.property
    ELSE IF node.parent.type = "Property"
            /\ node.parent.target.type = "Identifier" THEN node.parent.target
    ELSE Null

\* ------------------------------------------------- onCodePathStart handler
\* a code path opened without an accumulator
onCodePathStartNoPush(cs) == cs

\* complexities.push(0)
onCodePathStartPushOne(cs) == Append(cs, 1)

onCodePathStartPush(cs) == Append(cs, 0)

\* functionStack.push(identifier) or functionStack.push(null)
onCodePathStartIdentifier(origin, node) ==
    IF origin = "function" THEN getFunctionIdentifier(node) ELSE Null


\* ------------------------------------------------------- visitor handlers
\* each handler maps the complexities stack before the callback to the
\* stack after it

\* CatchClause, ConditionalExpression and the five loop statements are all
\* bound to increaseComplexity
BranchingTypes ==
    {"CatchClause", "ConditionalExpression", "ForStatement", "ForInStatement",
     "ForOfStatement", "WhileStatement", "DoWhileStatement"}

Branching(cs) == increaseComplexity(cs)

IfAlternates ==
    {Null, Other("IfStatement"), Other("BlockStatement"), Other("ReturnStatement")}

IfNodes == {[type |-> "IfStatement", alternate |-> a] : a \in IfAlternates}

IfStatementIgnoringElse(cs, node) == increaseComplexity(cs)

IfStatement(cs, node) ==
    LET counted == increaseComplexity(cs)
    IN  IF node.alternate # Null /\ node.alternate.type # "IfStatement"
        THEN increaseComplexity(counted)
        ELSE counted

\* a callee: an identifier, a member access with its property, or another
\* expression (the call of a call's result, of a function expression)
Callee(t, n, p) == [type |-> t, name |-> n, property |-> p]

Callees ==
    {Callee("Identifier", n, Null) : n \in Names}
    \cup {Callee("MemberExpression", "", Ident(n)) : n \in Names}
    \cup {Callee("MemberExpression", "", [type |-> "PrivateIdentifier", name |-> "f"]),
          Callee("MemberExpression", "", Other("Literal")),
          Callee("CallExpression", "", Null)}

CallNodes == {[type |-> "CallExpression", callee |-> c] : c \in Callees}

\* a call matched against the binding of every open code path
CallExpressionAnyBinding(cs, fs, node) ==
    IF \E i \in 1..Len(fs) :
            /\ fs[i] # Null
            /\ fs[i].type = "Identifier"
            /\ \/ node.callee.type = "Identifier" /\ node.callee.name = fs[i].name
               \/ /\ node.callee.type = "MemberExpression"
                  /\ node.callee.property.type = "Identifier"
                  /\ node.callee.property.name = fs[i].name
    THEN increaseComplexity(cs)
    ELSE cs

CallExpressionIdentifierOnly(cs, fs, node) ==
    LET currentFunctionIdentifier == Last(fs)
    IN  IF currentFunctionIdentifier = Null THEN cs
        ELSE IF node.callee.type = "Identifier"
                /\ node.callee.name = currentFunctionIdentifier.name
        THEN increaseComplexity(cs)
        ELSE cs

CallExpression(cs, fs, node) ==
    LET currentFunctionIdentifier == Last(fs)
    IN  IF currentFunctionIdentifier = Null THEN cs
        ELSE IF node.callee.type = "Identifier"
                /\ node.callee.name = currentFunctionIdentifier.name
        THEN increaseComplexity(cs)
        ELSE IF node.callee.type = "MemberExpression"
                /\ node.callee.property.type = "Identifier"
                /\ currentFunctionIdentifier.type = "Identifier"
                /\ node.callee.property.name = currentFunctionIdentifier.name
        THEN increaseComplexity(cs)
        ELSE cs

\* the arms of a switch: each arm's test, Null for the default arm; the
\* parser accepts at most one default arm
CaseTest == Other("Literal")

RECURSIVE SeqsUpTo(_, _)
SeqsUpTo(S, n) ==
    IF n = 0 THEN {<<>>}
    ELSE SeqsUpTo(S, n - 1)
         \cup {Append(s, x) : s \in SeqsUpTo(S, n - 1), x \in S}

SwitchCases ==
    {cases \in SeqsUpTo({Null, CaseTest}, MaxCases) :
        Cardinality({i \in 1..Len(cases) : cases[i] = Null}) <= 1}

SwitchNodes == {[type |-> "SwitchStatement", cases |-> c] : c \in SwitchCases}

SwitchStatementPerCase(cs, node) ==
    [cs EXCEPT ![Len(cs)] = @ + Len(node.cases)]

SwitchStatement(cs, node) ==
    LET counted == increaseComplexity(cs)
    IN  IF \E i \in 1..Len(node.cases) : node.cases[i] = Null
        THEN increaseComplexity(counted)
        ELSE counted

\* "SwitchCase[test]"() {}
SwitchCaseWithTest(cs) == cs

\* astUtils.isLogicalAssignmentOperator
isLogicalAssignmentOperator(operator) == operator \in {"&&=", "||=", "??="}

AssignmentOperators == {"=", "+=", "&&=", "||=", "??="}

AssignmentNodes ==
    {[type |-> "AssignmentExpression", operator |-> op] : op \in AssignmentOperators}

AssignmentExpressionAny(cs, node) == increaseComplexity(cs)

AssignmentExpression(cs, node) ==
    IF isLogicalAssignmentOperator(node.operator) THEN increaseComplexity(cs) ELSE cs

\* --------------------------------------------------- logical expressions
LogicalOperators == {"&&", "||", "??"}

Operand == [type |-> "Identifier"]

\* the logical expressions with exactly n logical nodes
RECURSIVE LogicalTrees(_)
LogicalTrees(n) ==
    IF n = 0 THEN {Operand}
    ELSE UNION {
        {[type |-> "LogicalExpression", operator |-> op, left |-> l, right |-> r] :
            op \in LogicalOperators, l \in LogicalTrees(k), r \in LogicalTrees(n - 1 - k)}
        : k \in 0..(n - 1)}

LogicalExpressions(max) == UNION {LogicalTrees(n) : n \in 1..max}

\* a logical node as the traversal hands it over: with its parent link
Visited(tree, parentType) ==
    [type |-> tree.type, operator |-> tree.operator, left |-> tree.left,
     right |-> tree.right, parent |-> [type |-> parentType]]

NonLogicalParents == {"IfStatement", "ReturnStatement"}

hasLogicalExpressionParent(node) == node.parent.type = "LogicalExpression"

\* currentOp === null
NoOperator == "null"

RECURSIVE countEveryLogicalOperator(_, _)
countEveryLogicalOperator(node, currentOp) ==
    1
    + (IF node.left.type = "LogicalExpression"
       THEN countEveryLogicalOperator(node.left, node.operator) ELSE 0)
    + (IF node.right.type = "LogicalExpression"
       THEN countEveryLogicalOperator(node.right, node.operator) ELSE 0)

\* the value sequences.count is increased by
RECURSIVE countLogicalOperatorSequences(_, _)
countLogicalOperatorSequences(node, currentOp) ==
    (IF currentOp = NoOperator \/ currentOp # node.operator THEN 1 ELSE 0)
    + (IF node.left.type = "LogicalExpression"
       THEN countLogicalOperatorSequences(node.left, node.operator) ELSE 0)
    + (IF node.right.type = "LogicalExpression"
       THEN countLogicalOperatorSequences(node.right, node.operator) ELSE 0)

\* for (let i = 0; i < sequences.count; i++) increaseComplexity()
RECURSIVE increaseComplexityTimes(_, _)
increaseComplexityTimes(cs, n) ==
    IF n = 0 THEN cs ELSE increaseComplexityTimes(increaseComplexity(cs), n - 1)

LogicalExpressionNoSkip(cs, node) ==
    increaseComplexityTimes(cs, countLogicalOperatorSequences(node, NoOperator))

LogicalExpression(cs, node) ==
    IF hasLogicalExpressionParent(node) THEN cs
    ELSE increaseComplexityTimes(cs, countLogicalOperatorSequences(node, NoOperator))

\* -------------------------------------------------- onCodePathEnd handler
isReportableOriginAny(origin) == TRUE

isReportableOrigin(origin) ==
    ~ (origin # "function"
       /\ origin # "class-field-initializer"
       /\ origin # "class-static-block")

exceedsThresholdInclusive(complexity) ==
    threshold = 0 \/ (threshold # Undefined /\ complexity >= threshold)

\* threshold === 0 || complexity > threshold
exceedsThreshold(complexity) == threshold = 0 \/ JsGreater(complexity, threshold)

\* astUtils.getFunctionNameWithKind(node)
getFunctionNameWithKind(node) ==
    IF node.id = Null THEN "function"
    ELSE IF node.id.name = "f" THEN "function 'f'" ELSE "function 'g'"

\* upperCaseFirst(name), on the names this rule passes to it
upperCaseFirst(name) ==
    CASE name = "class field initializer" -> "Class field initializer"
      [] name = "class static block" -> "Class static block"
      [] name = "function" -> "Function"
      [] name = "function 'f'" -> "Function 'f'"
      [] name = "function 'g'" -> "Function 'g'"

reportName(origin, node) ==
    IF origin = "class-field-initializer" THEN "class field initializer"
    ELSE IF origin = "class-static-block" THEN "class static block"
    ELSE getFunctionNameWithKind(node)

\* a report whose data swaps the score and the threshold
onCodePathEndReportsSwapped(origin, node, complexity) ==
    IF ~ isReportableOrigin(origin) THEN reports
    ELSE IF exceedsThreshold(complexity)
    THEN Append(reports,
            [node |-> node.uid, messageId |-> "complex",
             name |-> upperCaseFirst(reportName(origin, node)),
             complexity |-> threshold, max |-> complexity])
    ELSE reports

\* the reports after onCodePathEnd(codePath, node) popped `complexity`
onCodePathEndReports(origin, node, complexity) ==
    IF ~ isReportableOrigin(origin) THEN reports
    ELSE IF exceedsThreshold(complexity)
    THEN Append(reports,
            [node |-> node.uid, messageId |-> "complex",
             name |-> upperCaseFirst(reportName(origin, node)),
             complexity |-> complexity, max |-> threshold])
    ELSE reports

\* ------------------------------------------- decision points of an event
\* What one visited node contributes under the decision-point rules, read
\* off the node alone: the history variable `attributed` sums it per code
\* path, independently of the handlers above.
RECURSIVE Positions(_)
Positions(tree) ==
    IF tree.type # "LogicalExpression" THEN {}
    ELSE {<<>>}
         \cup {<<"left">> \o p : p \in Positions(tree.left)}
         \cup {<<"right">> \o p : p \in Positions(tree.right)}

RECURSIVE NodeAt(_, _)
NodeAt(tree, path) ==
    IF path = <<>> THEN tree
    ELSE NodeAt(IF Head(path) = "left" THEN tree.left ELSE tree.right, Tail(path))

\* the logical nodes that start a run: the root, and every node whose
\* operator differs from its parent's
RunStarts(tree) ==
    {p \in Positions(tree) :
        p = <<>> \/ NodeAt(tree, p).operator # NodeAt(tree, Front(p)).operator}

CalleeName(callee) ==
    IF callee.type = "Identifier" THEN callee.name
    ELSE IF callee.type = "MemberExpression" /\ callee.property.type = "Identifier"
    THEN callee.property.name
    ELSE ""

DecisionPoints(handler, node, binding) ==
    CASE handler \in BranchingTypes -> 1
      [] handler = "IfStatement" ->
            IF node.alternate.type \in {"null", "IfStatement"} THEN 1 ELSE 2
      [] handler = "CallExpression" ->
            IF binding.type = "Identifier" /\ CalleeName(node.callee) = binding.name
            THEN 1 ELSE 0
      [] handler = "SwitchStatement" ->
            IF Null \in {node.cases[i] : i \in 1..Len(node.cases)} THEN 2 ELSE 1
      [] handler = "SwitchCase[test]" -> 0
      [] handler = "LogicalExpression" ->
            IF node.parent.type = "LogicalExpression" THEN 0
            ELSE Cardinality(RunStarts(node))
      [] handler = "AssignmentExpression" ->
            IF node.operator \in {"&&=", "||=", "??="} THEN 1 ELSE 0

\* -------------------------------------------------------------------- Init
NoCallback ==
    [handler |-> "create", node |-> Null, origin |-> "", before |-> <<>>, seen |-> 0]

\* create(context), before the traversal starts
Init ==
    /\ \E option \in Options : threshold = createThreshold(option)
    /\ complexities = <<>>
    /\ functionStack = <<>>
    /\ reports = <<>>
    /\ open = <<>>
    /\ phase = "idle"
    /\ units = 0
    /\ events = 0
    /\ attributed = <<>>
    /\ last = NoCallback
    /\ tracing = FALSE
    /\ replay = NotReplaying
    /\ expr = Operand
    /\ todo = <<>>
    /\ configured = Unrecorded
    /\ StatementsIdle

\* ------------------------------------------------------ code path events
\* the host opens a code path and calls onCodePathStart(codePath, node)
Start(origin, node) ==
    /\ complexities' = onCodePathStartPush(complexities)
    /\ functionStack' = Append(functionStack, onCodePathStartIdentifier(origin, node))
    /\ open' = Append(open, [origin |-> origin, node |-> node])
    /\ attributed' = Append(attributed, 0)
    /\ last' = [handler |-> "onCodePathStart", node |-> node, origin |-> origin,
                before |-> complexities, seen |-> 0]
    /\ UNCHANGED <<threshold, reports, events, tracing, expr, todo, configured, replay,
                   statementVars>>

OnProgramStart ==
    /\ phase = "idle"
    /\ phase' = "walk"
    /\ units' = units
    /\ Start("program", ProgramNode)

OnCodePathStart ==
    /\ phase = "walk"
    /\ units + events < MaxSteps
    /\ units' = units + 1
    /\ phase' = phase
    /\ \E origin \in Origins :
        \E node \in CodePathNodes(origin, units + 1) : Start(origin, node)

\* the host leaves the innermost code path and calls onCodePathEnd(codePath, node)
OnCodePathEnd ==
    /\ phase = "walk"
    /\ LET codePath == Last(open)
           complexity == Last(complexities)
       IN  /\ complexities' = Front(complexities)
           /\ functionStack' = Front(functionStack)
           /\ reports' = onCodePathEndReports(codePath.origin, codePath.node, complexity)
           /\ last' = [handler |-> "onCodePathEnd", node |-> codePath.node,
                       origin |-> codePath.origin, before |-> complexities,
                       seen |-> Last(attributed)]
    /\ open' = Front(open)
    /\ attributed' = Front(attributed)
    /\ phase' = IF Len(open) = 1 THEN "done" ELSE "walk"
    /\ UNCHANGED <<threshold, units, events, tracing, expr, todo, configured, replay,
                   statementVars>>

\* --------------------------------------------------------- visitor events
VisitorCallback ==
    [handler |-> "visitor", node |-> Null, origin |-> "", before |-> <<>>, seen |-> 0]

\* the host enters a node inside the innermost open code path and calls the
\* handler registered for its type; `after` is the handler's result
Visit(handler, node, after) ==
    /\ phase = "walk"
    /\ units + events < MaxSteps
    /\ events' = events + 1
    /\ complexities' = after
    /\ attributed' = [attributed EXCEPT
            ![Len(attributed)] = @ + DecisionPoints(handler, node, Last(functionStack))]
    /\ last' = IF tracing
               THEN [handler |-> handler, node |-> node, origin |-> Last(open).origin,
                     before |-> complexities, seen |-> 0]
               ELSE VisitorCallback
    /\ UNCHANGED <<threshold, functionStack, reports, open, phase, units, tracing,
                   expr, todo, configured, replay, statementVars>>

OnBranching ==
    \E type \in BranchingTypes :
        Visit(type, Other(type), Branching(complexities))

OnIfStatement ==
    \E node \in IfNodes : Visit("IfStatement", node, IfStatement(complexities, node))

OnCallExpression ==
    \E node \in CallNodes :
        Visit("CallExpression", node, CallExpression(complexities, functionStack, node))

OnSwitchStatement ==
    \E node \in SwitchNodes :
        Visit("SwitchStatement", node, SwitchStatement(complexities, node))

OnSwitchCase ==
    Visit("SwitchCase[test]", [type |-> "SwitchCase", test |-> CaseTest],
          SwitchCaseWithTest(complexities))

OnLogicalExpression ==
    \E tree \in LogicalExpressions(MaxChain) :
        \E parentType \in NonLogicalParents \cup {"LogicalExpression"} :
            LET node == Visited(tree, parentType)
            IN  Visit("LogicalExpression", node, LogicalExpression(complexities, node))

OnAssignmentExpression ==
    \E node \in AssignmentNodes :
        Visit("AssignmentExpression", node, AssignmentExpression(complexities, node))

\* ------------------------------------------------------- one traversal
Next ==
    \/ OnProgramStart
    \/ OnCodePathStart
    \/ OnCodePathEnd
    \/ OnBranching
    \/ OnIfStatement
    \/ OnCallExpression
    \/ OnSwitchStatement
    \/ OnSwitchCase
    \/ OnLogicalExpression
    \/ OnAssignmentExpression

Spec == Init /\ [][Next]_vars

\* ------------------------------------- the visitor handlers, node by node
\* The traversal is inside one code path opened in the program code path:
\* a function at any syntactic position, a class field initializer or a
\* static block.  Every visitor callback is recorded in `last`.
InitVisit ==
    /\ threshold = createThreshold(NoOption)
    /\ \E origin \in Origins :
        \E node \in (IF origin = "function" THEN AllFunctionNodes(1)
                     ELSE {ImplicitNode(1)}) :
            /\ complexities = onCodePathStartPush(onCodePathStartPush(<<>>))
            /\ functionStack = <<onCodePathStartIdentifier("program", ProgramNode),
                                 onCodePathStartIdentifier(origin, node)>>
            /\ open = <<[origin |-> "program", node |-> ProgramNode],
                        [origin |-> origin, node |-> node]>>
            /\ last = [handler |-> "onCodePathStart", node |-> node, origin |-> origin,
                       before |-> onCodePathStartPush(<<>>), seen |-> 0]
    /\ reports = <<>>
    /\ phase = "walk"
    /\ units = 1
    /\ events = 0
    /\ attributed = <<0, 0>>
    /\ tracing = TRUE
    /\ replay = NotReplaying
    /\ expr = Operand
    /\ todo = <<>>
    /\ configured = Unrecorded
    /\ StatementsIdle

NextVisit ==
    \/ OnBranching
    \/ OnIfStatement
    \/ OnCallExpression
    \/ OnSwitchStatement
    \/ OnSwitchCase
    \/ OnLogicalExpression
    \/ OnAssignmentExpression

SpecVisit == InitVisit /\ [][NextVisit]_vars

\* ----------------------------------- the traversal of one logical expression
\* The traversal is inside a function and enters a logical expression of up
\* to MaxLogical logical nodes; it visits the root, then the logical nodes
\* of the left operand, then those of the right operand.
InitLogical ==
    /\ threshold = createThreshold(NoOption)
    /\ complexities = onCodePathStartPush(onCodePathStartPush(<<>>))
    /\ functionStack = <<Null, Null>>
    /\ open = <<[origin |-> "program", node |-> ProgramNode],
                [origin |-> "function",
                 node |-> [uid |-> 1, id |-> Null,
                           parent |-> Parent("CallExpression", Null, Null)]]>>
    /\ reports = <<>>
    /\ phase = "walk"
    /\ units = 1
    /\ events = 0
    /\ attributed = <<0, 0>>
    /\ last = NoCallback
    /\ tracing = TRUE
    /\ replay = NotReplaying
    /\ expr \in LogicalExpressions(MaxLogical)
    /\ \E parentType \in NonLogicalParents : todo = <<Visited(expr, parentType)>>
    /\ configured = Unrecorded
    /\ StatementsIdle

LogicalChildren(node) ==
    (IF node.left.type = "LogicalExpression"
     THEN <<Visited(node.left, "LogicalExpression")>> ELSE <<>>)
    \o (IF node.right.type = "LogicalExpression"
        THEN <<Visited(node.right, "LogicalExpression")>> ELSE <<>>)

WalkLogicalExpression ==
    /\ todo # <<>>
    /\ LET node == Head(todo)
       IN  /\ complexities' = LogicalExpression(complexities, node)
           /\ attributed' = [attributed EXCEPT
                   ![Len(attributed)] = @ + DecisionPoints("LogicalExpression", node, Null)]
           /\ last' = [handler |-> "LogicalExpression", node |-> node,
                       origin |-> Last(open).origin, before |-> complexities, seen |-> 0]
           /\ todo' = LogicalChildren(node) \o Tail(todo)
    /\ events' = events + 1
    /\ UNCHANGED <<threshold, functionStack, reports, open, phase, units, tracing, expr,
                   configured, replay, statementVars>>

NextLogical == WalkLogicalExpression

SpecLogical == InitLogical /\ [][NextLogical]_vars
\* ------------------------------------------------ calls in nested code paths
\* The traversal is inside a code path nested in a function: the program, a
\* function declared f or g or an anonymous callback, and in it a function,
\* a class field initializer or a static block.  Calls are delivered and
\* code paths close; every callback is recorded in `last`.
InitNested ==
    /\ threshold = createThreshold(NoOption)
    /\ \E outer \in FunctionNodes(1), origin \in Origins :
        \E node \in CodePathNodes(origin, 2) :
            /\ complexities =
                    onCodePathStartPush(onCodePathStartPush(onCodePathStartPush(<<>>)))
            /\ functionStack = <<onCodePathStartIdentifier("program", ProgramNode),
                                 onCodePathStartIdentifier("function", outer),
                                 onCodePathStartIdentifier(origin, node)>>
            /\ open = <<[origin |-> "program", node |-> ProgramNode],
                        [origin |-> "function", node |-> outer],
                        [origin |-> origin, node |-> node]>>
            /\ last = [handler |-> "onCodePathStart", node |-> node, origin |-> origin,
                       before |-> onCodePathStartPush(onCodePathStartPush(<<>>)),
                       seen |-> 0]
    /\ reports = <<>>
    /\ phase = "walk"
    /\ units = 2
    /\ events = 0
    /\ attributed = <<0, 0, 0>>
    /\ tracing = TRUE
    /\ replay = NotReplaying
    /\ expr = Operand
    /\ todo = <<>>
    /\ configured = Unrecorded
    /\ StatementsIdle

NextNested ==
    \/ OnCallExpression
    \/ OnCodePathEnd

SpecNested == InitNested /\ [][NextNested]_vars

\* ------------------------------------------- the configuration of complexity
\* create() is given any option the schema accepts, and the option is
\* recorded; the traversal is inside one code path opened in the program.
InitConfig ==
    /\ \E option \in Options :
        /\ configured = option
        /\ threshold = createThreshold(option)
    /\ \E origin \in Origins :
        \E node \in CodePathNodes(origin, 1) :
            /\ complexities = onCodePathStartPush(onCodePathStartPush(<<>>))
            /\ functionStack = <<onCodePathStartIdentifier("program", ProgramNode),
                                 onCodePathStartIdentifier(origin, node)>>
            /\ open = <<[origin |-> "program", node |-> ProgramNode],
                        [origin |-> origin, node |-> node]>>
            /\ last = [handler |-> "onCodePathStart", node |-> node, origin |-> origin,
                       before |-> onCodePathStartPush(<<>>), seen |-> 0]
    /\ reports = <<>>
    /\ phase = "walk"
    /\ units = 1
    /\ events = 0
    /\ attributed = <<0, 0>>
    /\ tracing = FALSE
    /\ replay = NotReplaying
    /\ expr = Operand
    /\ todo = <<>>
    /\ StatementsIdle

NextConfig ==
    \/ OnIfStatement
    \/ OnCodePathEnd

SpecConfig == InitConfig /\ [][NextConfig]_vars

\* ================================================== max-statements
\* The rule counts statements per function-like unit.  Its visitor is keyed
\* by node type: the four function-like types on entry and exit, block
\* statements on entry, and the exit of the program.
FunctionTypes ==
    {"FunctionDeclaration", "FunctionExpression", "ArrowFunctionExpression", "StaticBlock"}

FunctionLike(type, uid) == [uid |-> uid, type |-> type, id |-> Null]

\* the parents of a block statement that is not the body of a function
BlockParents == {"IfStatement", "ForStatement", "TryStatement"}

\* a block statement whose body holds `length` statements
Block(parent, length) == [type |-> "BlockStatement", parent |-> parent, length |-> length]

\* count >= max instead of count > max
reportIfTooManyStatementsInclusive(reported, node, count, max) ==
    IF count = max \/ JsGreater(count, max)
    THEN Append(reported,
            [node |-> node.uid, nodeType |-> node.type, messageId |-> "exceed",
             name |-> upperCaseFirst(getFunctionNameWithKind(node)),
             count |-> count, max |-> max])
    ELSE reported

\* the reports after reportIfTooManyStatements(node, count, max)
reportIfTooManyStatements(reported, node, count, max) ==
    IF JsGreater(count, max)
    THEN Append(reported,
            [node |-> node.uid, nodeType |-> node.type, messageId |-> "exceed",
             name |-> upperCaseFirst(getFunctionNameWithKind(node)),
             count |-> count, max |-> max])
    ELSE reported

\* the unit itself counted as a statement
startFunctionOne(stack) == Append(stack, 1)

\* functionStack.push(0)
startFunction(stack) == Append(stack, 0)

\* a block entered with the stack empty given an accumulator of its own
countStatementsPushing(stack, node) ==
    IF Len(stack) = 0 THEN <<node.length>>
    ELSE [stack EXCEPT ![Len(stack)] = @ + node.length]

\* every open accumulator takes the statements of the block
countStatementsAll(stack, node) == [i \in 1..Len(stack) |-> stack[i] + node.length]

\* functionStack[functionStack.length - 1] += node.body.length; with the
\* stack empty the write lands on the property "-1", which is no element
countStatements(stack, node) ==
    IF Len(stack) = 0 THEN stack
    ELSE [stack EXCEPT ![Len(stack)] = @ + node.length]

\* every unit deferred under the flag, whatever still encloses it
endFunctionDefersNested(node, rest) ==
    /\ node.type # "StaticBlock"
    /\ ignoreTopLevelFunctions

\* functionStack[-1] after countStatements(node): with the stack empty the
\* property "-1" becomes undefined + node.body.length, or NaN + it: NaN
countStatementsMinusOne(stack, stray, node) ==
    IF Len(stack) = 0 THEN NaN ELSE stray

\* endFunction(node) after the pop left `rest`: whether the unit is deferred
endFunctionDefers(node, rest) ==
    /\ node.type # "StaticBlock"
    /\ ignoreTopLevelFunctions
    /\ Len(rest) = 0

\* endFunction(node): the deferred list after the pop of `count` left `rest`
endFunctionTopLevel(node, count, rest) ==
    IF endFunctionDefers(node, rest)
    THEN Append(topLevelFunctions, [node |-> node, count |-> count])
    ELSE topLevelFunctions

\* static blocks checked like functions
endFunctionReportsStaticBlock(node, count, rest) ==
    IF endFunctionDefers(node, rest) THEN reports
    ELSE reportIfTooManyStatements(reports, node, count, maxStatements)

\* endFunction(node): the reports after the pop of `count` left `rest`
endFunctionReports(node, count, rest) ==
    IF node.type = "StaticBlock" \/ endFunctionDefers(node, rest) THEN reports
    ELSE reportIfTooManyStatements(reports, node, count, maxStatements)

\* topLevelFunctions.forEach(element => reportIfTooManyStatements(...))
RECURSIVE forEachTopLevelFunction(_, _)
forEachTopLevelFunction(reported, elements) ==
    IF elements = <<>> THEN reported
    ELSE forEachTopLevelFunction(
            reportIfTooManyStatements(reported, Head(elements).node,
                                      Head(elements).count, maxStatements),
            Tail(elements))

\* a single deferred unit checked like several
programExitReportsSingle == forEachTopLevelFunction(reports, topLevelFunctions)

\* "Program:exit"()
programExitReports ==
    IF Len(topLevelFunctions) = 1 THEN reports
    ELSE forEachTopLevelFunction(reports, topLevelFunctions)

\* ------------------------------------------ max-statements: the traversal
\* complexity created without options, its traversal not started
ComplexityIdle ==
    /\ threshold = createThreshold(NoOption)
    /\ complexities = <<>>
    /\ functionStack = <<>>

\* history of an open unit: the length of its body block once entered, and
\* the statements of the other blocks entered while it was the innermost
NoBlocks == [direct |-> Undefined, inner |-> 0]

\* create(context) of max-statements, before the traversal delivers a node
InitStatements ==
    /\ \E option \in Options : maxStatements = createMaxStatements(option)
    /\ \E second \in SecondOptions :
            ignoreTopLevelFunctions = createIgnoreTopLevelFunctions(second)
    /\ statementCounts = <<>>
    /\ topLevelFunctions = <<>>
    /\ minusOne = Undefined
    /\ reports = <<>>
    /\ open = <<>>
    /\ phase = "walk"
    /\ units = 0
    /\ events = 0
    /\ attributed = <<>>
    /\ last = NoCallback
    /\ tracing = FALSE
    /\ replay = NotReplaying
    /\ expr = Operand
    /\ todo = <<>>
    /\ configured = Unrecorded
    /\ ComplexityIdle

\* the host enters a function-like node: startFunction()
OnFunctionEnter ==
    /\ phase = "walk"
    /\ units + events < MaxSteps
    /\ \E type \in FunctionTypes :
        LET node == FunctionLike(type, units + 1)
        IN  /\ statementCounts' = startFunction(statementCounts)
            /\ open' = Append(open, [origin |-> type, node |-> node])
            /\ last' = [handler |-> "startFunction", node |-> node, origin |-> type,
                        before |-> statementCounts, seen |-> NoBlocks]
    /\ units' = units + 1
    /\ attributed' = Append(attributed, NoBlocks)
    /\ UNCHANGED <<complexityVars, maxStatements, ignoreTopLevelFunctions, minusOne,
                   topLevelFunctions, reports, phase, events, tracing, expr, todo,
                   configured, replay>>

\* the host enters a block statement: countStatements(node)
EnterBlock(node, seen) ==
    /\ phase = "walk"
    /\ units + events < MaxSteps
    /\ events' = events + 1
    /\ statementCounts' = countStatements(statementCounts, node)
    /\ minusOne' = countStatementsMinusOne(statementCounts, minusOne, node)
    /\ attributed' = seen
    /\ last' = [handler |-> "countStatements", node |-> node,
                origin |-> IF Len(open) = 0 THEN "Program" ELSE Last(open).origin,
                before |-> statementCounts, seen |-> NoBlocks]
    /\ UNCHANGED <<complexityVars, maxStatements, ignoreTopLevelFunctions,
                   topLevelFunctions, reports, open, phase, units, tracing, expr, todo,
                   configured, replay>>

\* the body of the innermost open function, the first block entered in it
OnFunctionBody ==
    /\ Len(open) > 0
    /\ Last(open).node.type # "StaticBlock"
    /\ Last(attributed).direct = Undefined
    /\ \E length \in 0..MaxBody :
        EnterBlock(Block(Last(open).node.type, length),
                   [attributed EXCEPT ![Len(attributed)].direct = length])

\* any other block: of an if, a loop or a try, inside the body of the
\* innermost open function, inside a static block, or outside any function
OnBlockStatement ==
    /\ IF Len(open) = 0 THEN TRUE
       ELSE IF Last(open).node.type = "StaticBlock" THEN TRUE
       ELSE Last(attributed).direct # Undefined
    /\ \E parent \in BlockParents, length \in 0..MaxBody :
        EnterBlock(Block(parent, length),
                   IF Len(open) = 0 THEN attributed
                   ELSE [attributed EXCEPT ![Len(attributed)].inner = @ + length])

\* the host leaves the innermost open function-like node: endFunction(node)
OnFunctionExit ==
    /\ phase = "walk"
    /\ Len(open) > 0
    /\ LET node == Last(open).node
           count == Last(statementCounts)
           rest == Front(statementCounts)
       IN  /\ statementCounts' = rest
           /\ topLevelFunctions' = endFunctionTopLevel(node, count, rest)
           /\ reports' = endFunctionReports(node, count, rest)
           /\ last' = [handler |-> "endFunction", node |-> node, origin |-> node.type,
                       before |-> statementCounts, seen |-> Last(attributed)]
    /\ open' = Front(open)
    /\ attributed' = Front(attributed)
    /\ UNCHANGED <<complexityVars, maxStatements, ignoreTopLevelFunctions, minusOne, phase,
                   units, events, tracing, expr, todo, configured, replay>>

\* the host leaves the program: "Program:exit"()
OnProgramExit ==
    /\ phase = "walk"
    /\ Len(open) = 0
    /\ phase' = "done"
    /\ reports' = programExitReports
    /\ last' = [handler |-> "Program:exit", node |-> Null, origin |-> "Program",
                before |-> statementCounts, seen |-> NoBlocks]
    /\ UNCHANGED <<complexityVars, statementVars, open, units, events, attributed,
                   tracing, expr, todo, configured, replay>>

NextStatements ==
    \/ OnFunctionEnter
    \/ OnFunctionBody
    \/ OnBlockStatement
    \/ OnFunctionExit
    \/ OnProgramExit

SpecStatements == InitStatements /\ [][NextStatements]_vars

\* -------------------------------------- the configuration of max-statements
\* create() is given any options the schema accepts, and options[0] is
\* recorded; the traversal enters and leaves functions and their bodies.
InitStatementsConfig ==
    /\ \E option \in Options :
        /\ configured = option
        /\ maxStatements = createMaxStatements(option)
    /\ \E second \in SecondOptions :
            ignoreTopLevelFunctions = createIgnoreTopLevelFunctions(second)
    /\ statementCounts = <<>>
    /\ topLevelFunctions = <<>>
    /\ minusOne = Undefined
    /\ reports = <<>>
    /\ open = <<>>
    /\ phase = "walk"
    /\ units = 0
    /\ events = 0
    /\ attributed = <<>>
    /\ last = NoCallback
    /\ tracing = FALSE
    /\ replay = NotReplaying
    /\ expr = Operand
    /\ todo = <<>>
    /\ ComplexityIdle

NextStatementsConfig ==
    \/ OnFunctionEnter
    \/ OnFunctionBody
    \/ OnFunctionExit

SpecStatementsConfig == InitStatementsConfig /\ [][NextStatementsConfig]_vars

\* ================================================ the same analysis twice
\* One rule analyses a tree, then the host analyses the same tree again
\* under the same options: it calls create() again and delivers the same
\* events.  `replay` holds the options, the events of the first analysis,
\* those still to deliver in the second, the scores popped so far in the
\* current analysis, and the scores and reports of the first analysis.
TwiceOptions == {NoOption} \cup {NumberOption(n) : n \in 0..MaxThreshold}

Event(kind, origin, node) == [kind |-> kind, origin |-> origin, node |-> node]

ComplexityEvents(uid) ==
    {Event("enter", "function",
           [uid |-> uid, id |-> Ident("f"), parent |-> Parent("Program", Null, Null)]),
     Event("enter", "class-static-block", ImplicitNode(uid)),
     Event("enter", "class-field-initializer", ImplicitNode(uid)),
     Event("IfStatement", "", [type |-> "IfStatement", alternate |-> Null]),
     Event("IfStatement", "", [type |-> "IfStatement", alternate |-> Other("BlockStatement")]),
     Event("CallExpression", "",
           [type |-> "CallExpression", callee |-> Callee("Identifier", "f", Null)]),
     Event("exit", "", Null),
     Event("end", "", Null)}

StatementEvents(uid) ==
    {Event("enter", type, FunctionLike(type, uid)) :
        type \in {"FunctionDeclaration", "StaticBlock"}}
    \cup {Event("BlockStatement", "", Block("IfStatement", length)) : length \in 1..MaxBody}
    \cup {Event("exit", "", Null), Event("end", "", Null)}

\* `const complexities = []`, `const functionStack = []` inside create(): a
\* new, empty array at each call, whatever an earlier instance holds
createStack(previous) == <<>>

\* one deferred list shared by every instance
createTopLevelFunctionsShared(previous) == previous

\* `topLevelFunctions = []` inside create(): a new array at each call
createTopLevelFunctions(previous) == <<>>

\* the open units below which the host closes the traversal
OutermostDepth == IF replay.rule = "complexity" THEN 1 ELSE 0

DeliverGuard(e) ==
    /\ phase = "walk"
    /\ e.kind \notin {"exit", "end"} => units + events < MaxReplay
    /\ e.kind = "exit" => Len(open) > OutermostDepth
    /\ e.kind = "end" => Len(open) = OutermostDepth
    /\ units' = IF e.kind = "enter" THEN units + 1 ELSE units
    /\ events' = IF e.kind \in {"enter", "exit", "end"} THEN events ELSE events + 1
    /\ phase' = IF e.kind = "end" THEN "done" ELSE phase
    /\ open' = IF e.kind = "enter" THEN Append(open, [origin |-> e.origin, node |-> e.node])
               ELSE IF e.kind = "exit" \/ (e.kind = "end" /\ OutermostDepth = 1)
               THEN Front(open)
               ELSE open

\* complexity receives the event: onCodePathStart, a visitor callback, or
\* onCodePathEnd (of the program at the end)
DeliverComplexity(e) ==
    /\ replay.rule = "complexity"
    /\ DeliverGuard(e)
    /\ complexities' =
            CASE e.kind = "enter" -> onCodePathStartPush(complexities)
              [] e.kind = "IfStatement" -> IfStatement(complexities, e.node)
              [] e.kind = "CallExpression" ->
                    CallExpression(complexities, functionStack, e.node)
              [] OTHER -> Front(complexities)
    /\ functionStack' =
            CASE e.kind = "enter" ->
                    Append(functionStack, onCodePathStartIdentifier(e.origin, e.node))
              [] e.kind \in {"exit", "end"} -> Front(functionStack)
              [] OTHER -> functionStack
    /\ reports' =
            IF e.kind \in {"exit", "end"}
            THEN onCodePathEndReports(Last(open).origin, Last(open).node, Last(complexities))
            ELSE reports
    /\ UNCHANGED <<threshold, attributed, last, tracing, expr, todo, configured,
                   statementVars>>

\* max-statements receives the event: startFunction, countStatements,
\* endFunction, or Program:exit at the end
DeliverStatements(e) ==
    /\ replay.rule = "max-statements"
    /\ DeliverGuard(e)
    /\ statementCounts' =
            CASE e.kind = "enter" -> startFunction(statementCounts)
              [] e.kind = "BlockStatement" -> countStatements(statementCounts, e.node)
              [] e.kind = "exit" -> Front(statementCounts)
              [] OTHER -> statementCounts
    /\ minusOne' =
            IF e.kind = "BlockStatement"
            THEN countStatementsMinusOne(statementCounts, minusOne, e.node)
            ELSE minusOne
    /\ topLevelFunctions' =
            IF e.kind = "exit"
            THEN endFunctionTopLevel(Last(open).node, Last(statementCounts),
                                     Front(statementCounts))
            ELSE topLevelFunctions
    /\ reports' =
            CASE e.kind = "exit" ->
                    endFunctionReports(Last(open).node, Last(statementCounts),
                                       Front(statementCounts))
              [] e.kind = "end" -> programExitReports
              [] OTHER -> reports
    /\ UNCHANGED <<complexityVars, maxStatements, ignoreTopLevelFunctions, attributed,
                   last, tracing, expr, todo, configured>>

\* the scores popped so far, with the one the event pops
Popped(e) ==
    IF e.kind = "exit" \/ (e.kind = "end" /\ OutermostDepth = 1)
    THEN Append(replay.scores,
                [node |-> Last(open).node.uid,
                 score |-> IF replay.rule = "complexity" THEN Last(complexities)
                           ELSE Last(statementCounts)])
    ELSE replay.scores

NotAnalysed == [scores |-> <<>>, reports |-> <<>>]

InitTwice ==
    /\ \E rule \in {"complexity", "max-statements"}, option \in TwiceOptions,
          second \in {NoSecondOption, SecondOption("true")} :
        /\ replay = [rule |-> rule, run |-> 1, option |-> option, second |-> second,
                     script |-> <<>>, rest |-> <<>>, scores |-> <<>>,
                     first |-> NotAnalysed]
        /\ IF rule = "complexity"
           THEN /\ threshold = createThreshold(option)
                /\ complexities = onCodePathStartPush(createStack(<<>>))
                /\ functionStack =
                        Append(createStack(<<>>),
                               onCodePathStartIdentifier("program", ProgramNode))
                /\ open = <<[origin |-> "program", node |-> ProgramNode]>>
                /\ StatementsIdle
           ELSE /\ maxStatements = createMaxStatements(option)
                /\ ignoreTopLevelFunctions = createIgnoreTopLevelFunctions(second)
                /\ statementCounts = createStack(<<>>)
                /\ minusOne = Undefined
                /\ topLevelFunctions = createTopLevelFunctions(<<>>)
                /\ open = <<>>
                /\ ComplexityIdle
    /\ reports = <<>>
    /\ phase = "walk"
    /\ units = 0
    /\ events = 0
    /\ attributed = <<>>
    /\ last = NoCallback
    /\ tracing = FALSE
    /\ expr = Operand
    /\ todo = <<>>
    /\ configured = Unrecorded

\* the first analysis: the host delivers any event the tree allows
AnalyseFirst ==
    /\ replay.run = 1
    /\ \E e \in (IF replay.rule = "complexity" THEN ComplexityEvents(units + 1)
                 ELSE StatementEvents(units + 1)) :
        /\ DeliverComplexity(e) \/ DeliverStatements(e)
        /\ replay' = [replay EXCEPT !.script = Append(@, e), !.scores = Popped(e)]

\* the first analysis is over: the host calls create() again with the same
\* options and starts the traversal of the same tree
AnalyseAgain ==
    /\ replay.run = 1
    /\ phase = "done"
    /\ replay' = [replay EXCEPT !.run = 2, !.rest = replay.script, !.scores = <<>>,
                                !.first = [scores |-> replay.scores, reports |-> reports]]
    /\ IF replay.rule = "complexity"
       THEN /\ threshold' = createThreshold(replay.option)
            /\ complexities' = onCodePathStartPush(createStack(complexities))
            /\ functionStack' =
                    Append(createStack(functionStack),
                           onCodePathStartIdentifier("program", ProgramNode))
            /\ open' = <<[origin |-> "program", node |-> ProgramNode]>>
            /\ UNCHANGED statementVars
       ELSE /\ maxStatements' = createMaxStatements(replay.option)
            /\ ignoreTopLevelFunctions' = createIgnoreTopLevelFunctions(replay.second)
            /\ statementCounts' = createStack(statementCounts)
            /\ minusOne' = Undefined
            /\ topLevelFunctions' = createTopLevelFunctions(topLevelFunctions)
            /\ open' = <<>>
            /\ UNCHANGED complexityVars
    /\ reports' = <<>>
    /\ phase' = "walk"
    /\ units' = 0
    /\ events' = 0
    /\ UNCHANGED <<attributed, last, tracing, expr, todo, configured>>

\* the second analysis: the host delivers the events of the first, in order
AnalyseSecond ==
    /\ replay.run = 2
    /\ replay.rest # <<>>
    /\ LET e == Head(replay.rest)
       IN  /\ DeliverComplexity(e) \/ DeliverStatements(e)
           /\ replay' = [replay EXCEPT !.rest = Tail(@), !.scores = Popped(e)]

NextTwice ==
    \/ AnalyseFirst
    \/ AnalyseAgain
    \/ AnalyseSecond

SpecTwice == InitTwice /\ [][NextTwice]_vars

\* ------------------------------------------------------------- properties
Reportable == {"function", "class-field-initializer", "class-static-block"}

Closed == last.handler = "onCodePathEnd"

\* the value onCodePathEnd popped
ClosedScore == Last(last.before)

Reported(uid) == \E i \in 1..Len(reports) : reports[i].node = uid

\* the last callback added k to the innermost accumulator and changed nothing else
Added(k) == complexities = [last.before EXCEPT ![Len(last.before)] = @ + k]

\* C1 as stated: the score of a reportable code path at its close is 1 plus
\* the number of decision points attributed to it.
C1_ScoreIsOnePlusDecisionPoints ==
    (Closed /\ last.origin \in Reportable) => ClosedScore = 1 + last.seen

\* C1 amended: the score compared with the threshold and reported at the close of
\* a reportable code path equals the number of decision points attributed to
\* it, with no baseline: 0 for a function with no decision point, 1 for a
\* function with one if and no else.
C1_ScoreIsDecisionPoints ==
    (Closed /\ last.origin \in Reportable) =>
        /\ ClosedScore = last.seen
        /\ Reported(last.node.uid) =>
            /\ reports[Len(reports)].node = last.node.uid
            /\ reports[Len(reports)].complexity = last.seen
            /\ exceedsThreshold(last.seen)

C1_Witness ==
    /\ Closed
    /\ last.origin = "function"
    /\ last.seen = 1
    /\ ClosedScore = 1
    /\ Reported(last.node.uid)

\* C2: a reportable code path that closes with score s under threshold t is
\* reported if and only if t = 0 or s > t.
C2_ReportedIffOverThreshold ==
    (Closed /\ last.origin \in Reportable) =>
        (Reported(last.node.uid)
            <=> (threshold = 0 \/ (threshold # Undefined /\ ClosedScore > threshold)))

\* under threshold 1 a code path of score 2 was reported and the code path
\* closing now, of score 1, is not
C2_Witness ==
    /\ Closed
    /\ last.origin \in Reportable
    /\ threshold = 1
    /\ ClosedScore = 1
    /\ ~ Reported(last.node.uid)
    /\ \E i \in 1..Len(reports) : reports[i].complexity = 2

\* C3: the program code path never produces a violation, whatever its score
\* and the threshold; its accumulator is pushed on open and popped on close.
C3_ProgramNeverReported ==
    /\ ~ Reported(ProgramNode.uid)
    /\ (last.handler = "onCodePathStart" /\ last.origin = "program") =>
            /\ Len(complexities) = Len(last.before) + 1
            /\ Len(functionStack) = Len(complexities)
    /\ (Closed /\ last.origin = "program") =>
            /\ complexities = Front(last.before)
            /\ Len(complexities) = 0
            /\ functionStack = <<>>

C3_Witness ==
    /\ Closed
    /\ last.origin = "program"
    /\ threshold = 0
    /\ ClosedScore > 0
    /\ reports = <<>>

\* C4: a callback changes no accumulator but the innermost one: a visitor
\* callback leaves every enclosing accumulator as it was, a code path's open
\* and close leave every other accumulator as it was, and the value popped
\* at a close is the number of decision points seen while that code path was
\* the innermost.
C4_OnlyInnermostChanges ==
    [][ /\ Len(complexities') = Len(complexities) =>
            \A i \in 1..(Len(complexities) - 1) : complexities'[i] = complexities[i]
        /\ Len(complexities') = Len(complexities) + 1 =>
            \A i \in 1..Len(complexities) : complexities'[i] = complexities[i]
        /\ Len(complexities') = Len(complexities) - 1 =>
            /\ \A i \in 1..Len(complexities') : complexities'[i] = complexities[i]
            /\ Last(complexities) = Last(attributed)
      ]_vars

\* a nested code path with a decision point of its own, inside a function
\* that had one before the nested code path opened
C4_Witness ==
    /\ Len(complexities) = 3
    /\ open[2].origin = "function"
    /\ complexities[2] = 1
    /\ complexities[3] = 2
    /\ attributed = complexities

\* C5: an if statement adds 1, and 1 more when it has an else branch that is
\* not itself an if statement.
C5_IfStatement ==
    last.handler = "IfStatement" =>
        Added(IF last.node.alternate = Null \/ last.node.alternate.type = "IfStatement"
              THEN 1 ELSE 2)

C5_Witness ==
    /\ last.handler = "IfStatement"
    /\ last.node.alternate.type = "BlockStatement"
    /\ Last(complexities) = Last(last.before) + 2

\* C6: a switch statement adds 1 without a default arm and 2 with one,
\* whatever the number of arms with a test; an arm with a test adds nothing.
HasDefault(cases) == \E i \in 1..Len(cases) : cases[i] = Null

C6_SwitchStatement ==
    /\ last.handler = "SwitchStatement" =>
            Added(IF HasDefault(last.node.cases) THEN 2 ELSE 1)
    /\ last.handler = "SwitchCase[test]" => Added(0)

C6_Witness ==
    /\ last.handler = "SwitchStatement"
    /\ last.node.cases = <<CaseTest, Null>>
    /\ Last(complexities) = Last(last.before) + 2

\* C9: inside a function bound to the name N, a call whose callee is the
\* identifier N, or a member access whose identifier property is N, adds 1;
\* any other call, and any call where the innermost code path has no bound
\* name, adds 0.
BoundName == IF Last(functionStack).type = "Identifier" THEN Last(functionStack).name ELSE ""

CallsBoundName(callee) ==
    /\ BoundName # ""
    /\ \/ callee.type = "Identifier" /\ callee.name = BoundName
       \/ /\ callee.type = "MemberExpression"
          /\ callee.property.type = "Identifier"
          /\ callee.property.name = BoundName

C9_RecursiveCall ==
    last.handler = "CallExpression" =>
        /\ CallsBoundName(last.node.callee) => (Added(1) /\ last.origin = "function")
        /\ ~ CallsBoundName(last.node.callee) => Added(0)

C9_Witness ==
    /\ last.handler = "CallExpression"
    /\ last.node.callee.type = "MemberExpression"
    /\ last.node.callee.property = Ident("f")
    /\ open[2].node.id = Null
    /\ open[2].node.parent.type = "AssignmentExpression"
    /\ Last(complexities) = Last(last.before) + 1

\* C10: a catch clause, a ternary conditional and each loop statement add 1;
\* an assignment adds 1 when its operator is &&=, ||= or ??= and 0 otherwise.
C10_BranchingAndAssignment ==
    /\ last.handler \in {"CatchClause", "ConditionalExpression", "ForStatement",
                         "ForInStatement", "ForOfStatement", "WhileStatement",
                         "DoWhileStatement"} => Added(1)
    /\ last.handler = "AssignmentExpression" =>
            Added(IF last.node.operator \in {"&&=", "||=", "??="} THEN 1 ELSE 0)

C10_Witness ==
    /\ last.handler = "AssignmentExpression"
    /\ last.node.operator = "??="
    /\ Last(complexities) = Last(last.before) + 1
    /\ Last(last.before) = 1

\* ------------------------------------------ properties of logical chains
Logical(op, l, r) == [type |-> "LogicalExpression", operator |-> op, left |-> l, right |-> r]

\* a && b && c
SameAndChain == Logical("&&", Logical("&&", Operand, Operand), Operand)

\* a && b && c || d || e
AndThenOrChain ==
    Logical("||", Logical("||", SameAndChain, Operand), Operand)

\* a && b || c && d
MixedChain ==
    Logical("||", Logical("&&", Operand, Operand), Logical("&&", Operand, Operand))

\* a ?? b ?? c
NullishChain == Logical("??", Logical("??", Operand, Operand), Operand)

Walked == todo = <<>>

\* C7: a logical node whose parent is a logical expression adds nothing when
\* visited; the outermost node adds 1 plus 1 for every logical node below it
\* whose operator differs from its parent's; so the traversal of the whole
\* expression adds that number once.
C7_LogicalRuns ==
    /\ (last.handler = "LogicalExpression" /\ last.node.parent.type = "LogicalExpression")
            => Added(0)
    /\ (last.handler = "LogicalExpression" /\ last.node.parent.type # "LogicalExpression")
            => Added(Cardinality(RunStarts(last.node)))
    /\ Walked => Last(complexities) = Cardinality(RunStarts(expr))
    /\ (Walked /\ expr = SameAndChain) => Last(complexities) = 1
    /\ (Walked /\ expr = AndThenOrChain) => Last(complexities) = 2
    /\ (Walked /\ expr = MixedChain) => Last(complexities) = 3

C7_Witness ==
    /\ Walked
    /\ expr = AndThenOrChain
    /\ events = 4
    /\ Last(complexities) = 2

RECURSIVE AllNullish(_)
AllNullish(tree) ==
    tree.type = "LogicalExpression" =>
        /\ tree.operator = "??"
        /\ AllNullish(tree.left)
        /\ AllNullish(tree.right)

\* C8 as stated: an expression with k occurrences of ?? adds k.
C8_EveryNullishAddsOne ==
    (Walked /\ AllNullish(expr)) => Last(complexities) = Cardinality(Positions(expr))

\* C8 amended: ?? is counted by the run rule of && and ||: a ?? node adds 1
\* when it is the outermost logical node or its parent's operator is not ??,
\* and nothing when it is nested directly in another ??; so a ?? b adds 1
\* and a ?? b ?? c adds 1, not 2.
NullishRunStarts(tree) == {p \in RunStarts(tree) : NodeAt(tree, p).operator = "??"}

C8_NullishRuns ==
    /\ (Walked /\ AllNullish(expr)) => Last(complexities) = 1
    /\ Walked =>
        Last(complexities) - Cardinality(RunStarts(expr) \ NullishRunStarts(expr))
            = Cardinality(NullishRunStarts(expr))
    /\ (last.handler = "LogicalExpression" /\ last.node.operator = "??"
        /\ last.node.parent.type = "LogicalExpression") => Added(0)

C8_Witness ==
    /\ Walked
    /\ expr = NullishChain
    /\ events = 2
    /\ Last(complexities) = 1

\* ------------------------------------------------- configuration and reports
ConfiguredMaximumOnly ==
    configured.type = "object" /\ configured.maximum # Undefined /\ configured.max = Undefined

ConfiguredMaxOnly ==
    configured.type = "object" /\ configured.maximum = Undefined /\ configured.max # Undefined

ConfiguredNothing ==
    \/ configured.type = "undefined"
    \/ configured.type = "object" /\ configured.maximum = Undefined /\ configured.max = Undefined

\* C11 as stated: the effective threshold of complexity is the configured
\* number for every accepted shape, 0 included: n for the integer n, for
\* {maximum: n} and for {max: n}; it is 20 with no option or with a record
\* holding neither key; under {maximum: 0} every reportable code path that
\* closes is reported.
C11_ThresholdIsConfigured ==
    /\ configured.type = "number" => threshold = configured.value
    /\ ConfiguredMaximumOnly => threshold = configured.maximum
    /\ ConfiguredMaxOnly => threshold = configured.max
    /\ ConfiguredNothing => threshold = THRESHOLD_DEFAULT
    /\ (ConfiguredMaximumOnly /\ configured.maximum = 0
        /\ Closed /\ last.origin \in Reportable) => Reported(last.node.uid)

\* the step closes the innermost open code path
ClosesCodePath ==
    /\ Len(complexities') = Len(complexities) - 1
    /\ open' = Front(open)

\* a violation is appended only by the close of a reportable code path, with
\* that code path's popped score, and is appended by every such close whose
\* score calls for it
ViolationOnlyAtClose ==
    /\ reports' # reports =>
            /\ ClosesCodePath
            /\ Last(open).origin \in Reportable
            /\ Len(reports') = Len(reports) + 1
            /\ SubSeq(reports', 1, Len(reports)) = reports
            /\ Last(reports').node = Last(open).node.uid
            /\ Last(reports').complexity = Last(complexities)
            /\ Last(reports').max = threshold
    /\ (/\ ClosesCodePath
        /\ Last(open).origin \in Reportable
        /\ (threshold = 0 \/ JsGreater(Last(complexities), threshold)))
            => reports' # reports

NoViolationTwiceOrWhileOpen ==
    /\ \A i, j \in 1..Len(reports) : reports[i].node = reports[j].node => i = j
    /\ \A i \in 1..Len(reports) :
            /\ reports[i].max = threshold
            /\ \A k \in 1..Len(open) : open[k].node.uid # reports[i].node

\* C12: a reportable code path produces at most one violation, and produces
\* it in the step that closes it, neither earlier nor later; the violation
\* carries the popped score as complexity and the effective threshold as
\* max; violations are appended in close order, so that of a nested code
\* path precedes that of the code path enclosing it.
C12_OneViolationAtClose ==
    []NoViolationTwiceOrWhileOpen /\ [][ViolationOnlyAtClose]_vars

\* a nested function of score 2 was reported at its close, then the function
\* enclosing it, of score 1, at its own
C12_Witness ==
    /\ Closed
    /\ Len(reports) = 2
    /\ reports[1].node > reports[2].node
    /\ reports[1].complexity = 2
    /\ reports[2].complexity = 1
    /\ reports[2].node = last.node.uid
    /\ threshold = 0

\* ------------------------------------------------------ statement counts
ClosedFunction == last.handler = "endFunction"

\* the value endFunction popped
ClosedCount == Last(last.before)

Deferred(uid) == \E i \in 1..Len(topLevelFunctions) : topLevelFunctions[i].node.uid = uid

\* the statements of the blocks entered while a unit was the innermost
BlocksTotal(seen) == (IF seen.direct = Undefined THEN 0 ELSE seen.direct) + seen.inner

\* C13: the count of a function-like unit is the sum of the statement-list
\* lengths of the block statements entered while it was the innermost open
\* unit: blocks of ifs, loops and tries inside it are included, blocks
\* entered inside a nested function or static block go to that unit's own
\* accumulator and leave the enclosing one as it was.
C13_CountIsSumOfBlocks ==
    /\ ClosedFunction => ClosedCount = BlocksTotal(last.seen)
    /\ Len(statementCounts) = Len(attributed)
    /\ \A i \in 1..Len(statementCounts) : statementCounts[i] = BlocksTotal(attributed[i])
    /\ (last.handler = "countStatements" /\ last.before # <<>>) =>
            /\ Front(statementCounts) = Front(last.before)
            /\ Last(statementCounts) = Last(last.before) + last.node.length

\* a function with a body of 1 statement closes with 1, after a function
\* nested in it, with a body of 2 statements, closed with 2
C13_Witness ==
    /\ ClosedFunction
    /\ last.node.uid = 1
    /\ last.seen = [direct |-> 1, inner |-> 0]
    /\ ClosedCount = 1
    /\ Len(reports) = 2
    /\ reports[1].node = 2
    /\ reports[1].count = 2
    /\ reports[2].count = 1

\* C14 as stated: a function whose body directly contains K statements
\* closes with count K.
C14_CountIsBodyLength ==
    (ClosedFunction /\ last.seen.direct # Undefined) => ClosedCount = last.seen.direct

\* C14 amended: a function whose body directly contains K statements closes
\* with K plus the statements of the blocks nested in its body outside any
\* nested function, and reports that count; it closes with exactly K when
\* its body nests no such statement.
C14_CountIsBodyPlusNestedBlocks ==
    (ClosedFunction /\ last.seen.direct # Undefined) =>
        /\ ClosedCount = last.seen.direct + last.seen.inner
        /\ last.seen.inner = 0 => ClosedCount = last.seen.direct
        /\ (Reported(last.node.uid) /\ ~ Deferred(last.node.uid)) =>
                reports[Len(reports)].count = last.seen.direct + last.seen.inner

\* a function with a body of 2 statements and an if block of 1 is reported
\* with count 3
C14_Witness ==
    /\ ClosedFunction
    /\ last.seen = [direct |-> 2, inner |-> 1]
    /\ ClosedCount = 3
    /\ Len(reports) = 1
    /\ reports[1].count = 3

\* ------------------------------------------------- statement violations
\* how many violations name the unit
TimesReported(uid) == Cardinality({i \in 1..Len(reports) : reports[i].node = uid})

\* the unit closed with the stack empty after its pop
ClosedAtTopLevel == ClosedFunction /\ Len(last.before) = 1

\* C15: a unit that is neither a static block nor deferred is reported at its
\* close exactly when its count is greater than maxStatements: a count equal
\* to the maximum is not reported, a count of maximum + 1 is, and under a
\* maximum of 0 a count of 0 is not.
C15_ReportedIffCountOverMaximum ==
    (ClosedFunction /\ last.node.type # "StaticBlock" /\ ~ Deferred(last.node.uid)) =>
        /\ Reported(last.node.uid) <=>
                (maxStatements # Undefined /\ ClosedCount > maxStatements)
        /\ ClosedCount = maxStatements => ~ Reported(last.node.uid)
        /\ (maxStatements # Undefined /\ ClosedCount = maxStatements + 1) =>
                /\ TimesReported(last.node.uid) = 1
                /\ reports[Len(reports)].node = last.node.uid
                /\ reports[Len(reports)].count = ClosedCount
                /\ reports[Len(reports)].max = maxStatements
        /\ (maxStatements = 0 /\ ClosedCount = 0) => ~ Reported(last.node.uid)

\* under a maximum of 1 a function of 2 statements was reported and the
\* function closing now, of 1 statement, is not
C15_Witness ==
    /\ ClosedFunction
    /\ maxStatements = 1
    /\ ClosedCount = 1
    /\ ~ Reported(last.node.uid)
    /\ Len(reports) = 1
    /\ reports[1].count = 2

\* C16: under ignoreTopLevelFunctions a unit other than a static block that
\* closes with the stack empty after its pop is recorded as {node, count} and
\* not reported, and no violation names it before the end of the program; a
\* unit closing while a function or a static block encloses it is checked at
\* its own close as without the flag; without the flag nothing is deferred.
C16_TopLevelFunctionsDeferred ==
    /\ ~ ignoreTopLevelFunctions => topLevelFunctions = <<>>
    /\ phase # "done" =>
            \A i \in 1..Len(topLevelFunctions) : ~ Reported(topLevelFunctions[i].node.uid)
    /\ (ClosedFunction /\ last.node.type # "StaticBlock") =>
            IF ignoreTopLevelFunctions /\ ClosedAtTopLevel
            THEN /\ topLevelFunctions # <<>>
                 /\ Last(topLevelFunctions) = [node |-> last.node, count |-> ClosedCount]
                 /\ ~ Reported(last.node.uid)
            ELSE /\ ~ Deferred(last.node.uid)
                 /\ Reported(last.node.uid) <=> JsGreater(ClosedCount, maxStatements)

\* under the flag and a maximum of 0, a function of 1 statement nested in a
\* top-level function was reported at its close, and the top-level function,
\* of 1 statement too, is deferred and not reported
C16_Witness ==
    /\ ClosedAtTopLevel
    /\ ignoreTopLevelFunctions
    /\ maxStatements = 0
    /\ last.node.uid = 1
    /\ topLevelFunctions = <<[node |-> last.node, count |-> 1]>>
    /\ Len(reports) = 1
    /\ reports[1].node = 2
    /\ reports[1].count = 1

\* C17: at the end of the traversal, when exactly one unit was deferred no
\* violation names it, whatever its count; when none or several were, each
\* deferred unit whose count is greater than maxStatements is reported
\* exactly once, and the others are not reported.
C17_DeferredReportedAtProgramExit ==
    phase = "done" =>
        \A i \in 1..Len(topLevelFunctions) :
            TimesReported(topLevelFunctions[i].node.uid) =
                IF Len(topLevelFunctions) # 1
                   /\ JsGreater(topLevelFunctions[i].count, maxStatements)
                THEN 1 ELSE 0

\* two deferred functions under a maximum of 1: the one of 2 statements is
\* reported at the end of the program, the one of 1 statement is not
C17_Witness ==
    /\ phase = "done"
    /\ maxStatements = 1
    /\ Len(topLevelFunctions) = 2
    /\ topLevelFunctions[1].count = 2
    /\ topLevelFunctions[2].count = 1
    /\ Len(reports) = 1
    /\ reports[1].node = topLevelFunctions[1].node.uid

\* a static block's entry pushed 0, its exit popped, and neither its close
\* nor a block entered in it touched the reports, the deferred list or any
\* enclosing accumulator
StaticBlockStep ==
    (Len(open) > 0 /\ Last(open).node.type = "StaticBlock") =>
        /\ open' = Front(open) =>
                /\ statementCounts' = Front(statementCounts)
                /\ reports' = reports
                /\ topLevelFunctions' = topLevelFunctions
        /\ open' = open =>
                Front(statementCounts') = Front(statementCounts)

StaticBlockNeverNamed ==
    /\ \A i \in 1..Len(reports) : reports[i].nodeType # "StaticBlock"
    /\ \A i \in 1..Len(topLevelFunctions) : topLevelFunctions[i].node.type # "StaticBlock"
    /\ (last.handler = "startFunction" /\ last.node.type = "StaticBlock") =>
            statementCounts = Append(last.before, 0)

\* C18: a static block pushes a zero accumulator on entry and pops it on
\* exit; it is never reported and never deferred, whatever its count, the
\* maximum and the flag; the statements of blocks entered while it is the
\* innermost unit are never added to the count of an enclosing unit.
C18_StaticBlockTrackedNotReported ==
    []StaticBlockNeverNamed /\ [][StaticBlockStep]_vars

\* under a maximum of 0, a static block in which a block of 2 statements was
\* entered closes inside a function of 1 statement: nothing is reported or
\* deferred and the function's accumulator is still 1
C18_Witness ==
    /\ ClosedFunction
    /\ last.node.type = "StaticBlock"
    /\ ClosedCount = 2
    /\ maxStatements = 0
    /\ statementCounts = <<1>>
    /\ reports = <<>>
    /\ topLevelFunctions = <<>>

\* C19 as stated: the effective maximum of max-statements is the configured
\* number for every accepted shape, 0 included: n for the integer n, for
\* {maximum: n} and for {max: n}; it is 10 with no option or with a record
\* holding neither key; under {maximum: 0} every function that is not
\* deferred and closes with at least one counted statement is reported.
C19_MaximumIsConfigured ==
    /\ configured.type = "number" => maxStatements = configured.value
    /\ ConfiguredMaximumOnly => maxStatements = configured.maximum
    /\ ConfiguredMaxOnly => maxStatements = configured.max
    /\ ConfiguredNothing => maxStatements = DefaultMaxStatements
    /\ (ConfiguredMaximumOnly /\ configured.maximum = 0
        /\ ClosedFunction /\ last.node.type # "StaticBlock"
        /\ ~ Deferred(last.node.uid) /\ ClosedCount >= 1) => Reported(last.node.uid)

\* ------------------------------------------------------------ two analyses
IsPrefix(s, t) == Len(s) <= Len(t) /\ SubSeq(t, 1, Len(s)) = s

SecondAnalysis == replay.rule # "none" /\ replay.run = 2

\* C20: analysing the same events under the same options a second time gives
\* the scores and the violations of the first analysis, in the same order,
\* for complexity and for max-statements: the second analysis starts from
\* empty stacks and an empty deferred list, at each of its steps the scores
\* and violations so far are those the first analysis had produced, and at
\* its end they are all of them.
C20_SecondAnalysisIdentical ==
    SecondAnalysis =>
        /\ IsPrefix(reports, replay.first.reports)
        /\ IsPrefix(replay.scores, replay.first.scores)
        /\ replay.rest = replay.script =>
                /\ complexities = (IF replay.rule = "complexity" THEN <<0>> ELSE <<>>)
                /\ Len(functionStack) = Len(complexities)
                /\ statementCounts = <<>>
                /\ topLevelFunctions = <<>>
        /\ replay.rest = <<>> =>
                /\ reports = replay.first.reports
                /\ replay.scores = replay.first.scores

\* max-statements under ignoreTopLevelFunctions and a maximum of 0 analysed a
\* tree with one top-level function of 2 statements twice: the function is
\* the only deferred unit of the second analysis, as of the first, and is
\* reported by neither
C20_Witness ==
    /\ SecondAnalysis
    /\ replay.rule = "max-statements"
    /\ replay.rest = <<>>
    /\ phase = "done"
    /\ ignoreTopLevelFunctions
    /\ maxStatements = 0
    /\ Len(topLevelFunctions) = 1
    /\ topLevelFunctions[1].count = 2
    /\ replay.first.scores = <<[node |-> 1, score |-> 2]>>
    /\ reports = <<>>

\* ------------------------------------------------------------ stack depth
Analysing == replay.rule # "none"

\* how many events of the current analysis were delivered
Delivered ==
    IF replay.run = 1 THEN Len(replay.script) ELSE Len(replay.script) - Len(replay.rest)

JustOpened == Delivered > 0 /\ replay.script[Delivered].kind = "enter"

StackDepthIsNesting ==
    Analysing =>
        /\ replay.rule = "complexity" =>
                /\ Len(complexities) = Len(open)
                /\ Len(functionStack) = Len(complexities)
                /\ \A i \in 1..Len(complexities) : complexities[i] >= 0
                /\ JustOpened => Last(complexities) = 0
                /\ phase = "done" => (complexities = <<>> /\ functionStack = <<>>)
        /\ replay.rule = "max-statements" =>
                /\ Len(statementCounts) = Len(open)
                /\ \A i \in 1..Len(statementCounts) : statementCounts[i] >= 0
                /\ JustOpened => Last(statementCounts) = 0
                /\ phase = "done" => statementCounts = <<>>

\* a close pops a stack that is not empty, and pops one entry
CloseStep ==
    (Analysing /\ Len(open') < Len(open)) =>
        IF replay.rule = "complexity"
        THEN /\ complexities # <<>>
             /\ functionStack # <<>>
             /\ Len(complexities') = Len(complexities) - 1
             /\ Len(functionStack') = Len(functionStack) - 1
        ELSE /\ statementCounts # <<>>
             /\ Len(statementCounts') = Len(statementCounts) - 1

\* C21: after any prefix of a well-nested sequence of open and close events
\* the complexity stack has one entry per open code path, the program's
\* included, and the function-identity stack has the same depth; a close
\* never pops an empty stack; a pushed accumulator starts at 0 and none is
\* ever negative; after the last close both stacks are empty.  The same
\* holds of the statement counter's stack and the open function-like units
\* and static blocks.
C21_StackDepthIsNesting ==
    []StackDepthIsNesting /\ [][CloseStep]_vars

\* complexity inside a class field initializer nested in a function that has
\* seen an if: three code paths are open, the program's included
C21_Witness ==
    /\ Analysing
    /\ replay.rule = "complexity"
    /\ replay.run = 1
    /\ Len(open) = 3
    /\ open[3].origin = "class-field-initializer"
    /\ complexities = <<0, 1, 0>>
    /\ Len(functionStack) = 3

\* ------------------------------------------------------ nested bindings
\* the name a code path of the nested traversal is bound to: the declared
\* name of a function, nothing for any other code path
DeclaredName(codePath) ==
    IF codePath.origin = "function" /\ codePath.node.id # Null
    THEN codePath.node.id.name
    ELSE ""

CallsName(name) == name # "" /\ CalleeName(last.node.callee) = name

\* C22: a call is matched against the binding of the innermost open code
\* path only.  While a function, class field initializer or static block is
\* open inside a function f, a call naming f adds nothing to either score
\* unless the nested code path is bound to that name too; once the nested
\* code path has closed, a call naming f adds 1 to f.
C22_InnermostBindingOnly ==
    last.handler = "CallExpression" =>
        /\ CallsName(DeclaredName(Last(open))) => Added(1)
        /\ ~ CallsName(DeclaredName(Last(open))) => Added(0)
        /\ (Len(open) = 3 /\ CallsName(DeclaredName(open[2]))
            /\ ~ CallsName(DeclaredName(open[3]))) => complexities = last.before
        /\ (Len(open) = 2 /\ CallsName(DeclaredName(open[2]))) =>
                complexities = <<last.before[1], last.before[2] + 1>>

\* inside a static block nested in the function f, a call of f adds nothing
C22_Witness ==
    /\ last.handler = "CallExpression"
    /\ last.node.callee = Callee("Identifier", "f", Null)
    /\ Len(open) = 3
    /\ DeclaredName(open[2]) = "f"
    /\ open[3].origin = "class-static-block"
    /\ complexities = <<0, 0, 0>>
    /\ last.before = <<0, 0, 0>>

\* ------------------------------------------------------- the bound name
NameOf(identifier) == IF identifier.type = "Identifier" THEN identifier.name ELSE ""

\* the name a function is bound to, by the first rule that applies: its own
\* name, the variable it initialises, the identifier it is assigned to, the
\* property of the member it is assigned to, the key of the property it
\* defines; "" when none applies or what is found is not an identifier
ExpectedBinding(node) ==
    IF node.id # Null THEN NameOf(node.id)
    ELSE CASE node.parent.type = "VariableDeclarator" -> NameOf(node.parent.target)
           [] node.parent.type = "AssignmentExpression"
              /\ node.parent.target.type # "MemberExpression" -> NameOf(node.parent.target)
           [] node.parent.type = "AssignmentExpression"
              /\ node.parent.target.type = "MemberExpression" -> NameOf(node.parent.property)
           [] node.parent.type = "Property" -> NameOf(node.parent.target)
           [] OTHER -> ""

InFunction == Len(open) = 2 /\ open[2].origin = "function"

\* the function is a named function expression initialising a variable of
\* another name
NamedAndAssigned(node) ==
    /\ node.id # Null
    /\ node.parent.type = "VariableDeclarator"
    /\ node.parent.target.type = "Identifier"
    /\ node.parent.target.name # node.id.name

\* C23: the bound name of a function is chosen by the first rule that
\* applies: its own declared name, the left side of the variable declaration
\* it initialises, the identifier it is assigned to, the property name of
\* the member it is assigned to, the key of the object-literal property it
\* defines, otherwise none; a named function expression assigned to a
\* variable is bound to its own name, and a call of the variable's name adds 0.
C23_BindingPriority ==
    InFunction =>
        /\ (IF functionStack[2] = Null THEN "" ELSE NameOf(functionStack[2]))
                = ExpectedBinding(open[2].node)
        /\ last.handler = "CallExpression" =>
                Added(IF CallsName(ExpectedBinding(open[2].node)) THEN 1 ELSE 0)
        /\ (last.handler = "CallExpression" /\ NamedAndAssigned(open[2].node)) =>
                /\ CallsName(open[2].node.parent.target.name) => Added(0)
                /\ CallsName(open[2].node.id.name) => Added(1)

\* in the function expression named f that initialises the variable g, a
\* call of g adds nothing
C23_Witness ==
    /\ InFunction
    /\ last.handler = "CallExpression"
    /\ open[2].node.id = Ident("f")
    /\ open[2].node.parent = Parent("VariableDeclarator", Ident("g"), Null)
    /\ last.node.callee = Callee("Identifier", "g", Null)
    /\ complexities = last.before

\* a step that enters a block statement while no function-like unit is open
ModuleLevelBlock ==
    /\ Len(open) = 0
    /\ events' = events + 1
    /\ last'.handler = "countStatements"

\* a block statement was entered outside any function-like unit before now
ModuleLevelBlockSeen == minusOne = NaN

\* the step of a module-level block leaves the accumulator stack as deep as
\* it was, and the deferred list and the violations as they were
ModuleLevelBlockFrame ==
    ModuleLevelBlock =>
        /\ Len(statementCounts') = Len(statementCounts)
        /\ topLevelFunctions' = topLevelFunctions
        /\ reports' = reports

\* after a module-level block, a function opened starts at 0, closes with the
\* statements of its own blocks, and one closed with no unit left open is
\* deferred under ignoreTopLevelFunctions as any top-level function is
ModuleLevelBlockForgotten ==
    ModuleLevelBlockSeen =>
        /\ Len(statementCounts) = Len(open)
        /\ last.handler = "startFunction" => Last(statementCounts) = 0
        /\ ClosedFunction => ClosedCount = BlocksTotal(last.seen)
        /\ (ClosedFunction /\ Len(open) = 0 /\ last.node.type # "StaticBlock"
                /\ ignoreTopLevelFunctions) =>
                /\ topLevelFunctions # <<>>
                /\ Last(topLevelFunctions) = [node |-> last.node, count |-> ClosedCount]
                /\ ~ Reported(last.node.uid)

\* C24: a block statement entered while no function-like unit is open changes
\* neither the depth of the accumulator stack nor the deferred list, and does
\* not affect the count of a function opened afterwards, which starts at 0;
\* it does not make a later top-level function look nested for the
\* ignoreTopLevelFunctions test.
C24_ModuleLevelBlockIsInert == []ModuleLevelBlockForgotten /\ [][ModuleLevelBlockFrame]_vars

\* under the flag and a maximum of 0, a block was entered outside any
\* function, then a function of 1 statement opened and closed at the top
\* level: it closed with 1 and is deferred, not reported
C24_Witness ==
    /\ ModuleLevelBlockSeen
    /\ ignoreTopLevelFunctions
    /\ maxStatements = 0
    /\ ClosedFunction
    /\ Len(open) = 0
    /\ events = 2
    /\ last.seen = [direct |-> 1, inner |-> 0]
    /\ topLevelFunctions = <<[node |-> last.node, count |-> 1]>>
    /\ statementCounts = <<>>
    /\ reports = <<>>

====
